---- MODULE Spec2Model ----
(***************************************************************************)
(* Model of the document acquisition and analysis pipeline of heysf:      *)
(*   backend/app/services/analyzer.py  (DocumentAnalyzer)                  *)
(*   backend/app/services/scraper.py   (SFBOSScraper)                      *)
(*   backend/app/routers/documents.py, backend/scheduler.py (callers)      *)
(*                                                                         *)
(* Two specifications share the module:                                    *)
(*   ChunkSpec  the loop of DocumentAnalyzer._chunk_content, run on every  *)
(*              text over a small alphabet and every max_chars >= 1;       *)
(*   Spec       the lifecycle of the persisted documents under discovery,  *)
(*              scraping and analysis, one database commit per step.       *)
(***************************************************************************)
EXTENDS Integers, Sequences, FiniteSets, TLC

(***************************************************************************)
(* Bounds of the chunker specification.                                    *)
(***************************************************************************)
MaxTextLen == 7
MaxChunkSize == 5

\* The characters that matter to _chunk_content: an ordinary letter, the
\* period and the space of a sentence break, the newline of a paragraph break.
Alphabet == {"a", ".", " ", "\n"}

ParagraphBreak == <<"\n", "\n">>
SentenceBreak == <<".", " ">>

\* The texts of n characters.
TextsOfLen(n) == [1..n -> Alphabet]

Texts == UNION {TextsOfLen(n) : n \in 0..MaxTextLen}

\* The calls of _chunk_content with any max_chars: texts of up to
\* MaxLoopTextLen characters, max_chars from -MaxNegSize upwards.
MaxLoopTextLen == 5
MaxNegSize == 2

SetMax(S) == CHOOSE m \in S : \A x \in S : x <= m
Min2(a, b) == IF a <= b THEN a ELSE b

(***************************************************************************)
(* Python string primitives, positions counted from 0 as in the source.    *)
(***************************************************************************)
\* A start or end index of a slice or of rfind over a string of n characters:
\* a negative index counts from the end, and the result is clipped to 0..n.
PyIndex(i, n) ==
    IF i < 0 THEN (IF i + n < 0 THEN 0 ELSE i + n) ELSE Min2(i, n)

\* Mutant of Slice: the slice loses its last character.
SliceShort(s, lo, hi) == SubSeq(s, lo + 1, Min2(hi, Len(s)) - 1)

\* content[lo:hi] with the slice clipped to the string, as Python does.
Slice(s, lo, hi) == SubSeq(s, PyIndex(lo, Len(s)) + 1, PyIndex(hi, Len(s)))

\* Mutant of Rfind: the occurrence may run past hi.
RfindPastEnd(s, sub, lo, hi) ==
    LET top == Min2(hi, Len(s))
        hits == {i \in lo..(top - 1) :
                    /\ i + Len(sub) <= Len(s)
                    /\ \A k \in 1..Len(sub) : s[i + k] = sub[k]}
    IN  IF hits = {} THEN -1 ELSE SetMax(hits)

\* content.rfind(sub, lo, hi): the highest index i with lo <= i and
\* i + len(sub) <= hi at which sub occurs, or -1.
Rfind(s, sub, lo, hi) ==
    LET top == PyIndex(hi, Len(s))
        hits == {i \in PyIndex(lo, Len(s))..(top - Len(sub)) :
                    \A k \in 1..Len(sub) : s[i + k] = sub[k]}
    IN  IF hits = {} THEN -1 ELSE SetMax(hits)

RECURSIVE Concat(_)
Concat(ss) == IF ss = <<>> THEN <<>> ELSE Head(ss) \o Concat(Tail(ss))

(***************************************************************************)
(* One iteration of the while loop of _chunk_content: the end position     *)
(* chosen for the piece that starts at current_pos.                        *)
(***************************************************************************)
BreakPos(s, current_pos, end_pos) ==
    LET para == Rfind(s, ParagraphBreak, current_pos, end_pos)
        sent == Rfind(s, SentenceBreak, current_pos, end_pos)
    IN  IF para # -1 THEN para
        ELSE IF sent # -1 THEN sent + 2
        ELSE -1

\* Mutant of TakeBreak: a break that was found is taken wherever it is.
TakeBreakAnyFound(break_pos, current_pos) == break_pos # -1

\* analyzer.py line 232
TakeBreak(break_pos, current_pos) == break_pos # -1 /\ break_pos > current_pos

\* Mutant of ChunkEnd: the window is one character too wide.
ChunkEndOvershoot(s, current_pos, max_chars) ==
    LET end_pos == current_pos + max_chars + 1
        break_pos == BreakPos(s, current_pos, end_pos)
    IN  IF end_pos < Len(s) /\ TakeBreak(break_pos, current_pos)
        THEN break_pos
        ELSE end_pos

ChunkEnd(s, current_pos, max_chars) ==
    LET end_pos == current_pos + max_chars
        break_pos == BreakPos(s, current_pos, end_pos)
    IN  IF end_pos < Len(s) /\ TakeBreak(break_pos, current_pos)
        THEN break_pos
        ELSE end_pos

(***************************************************************************)
(* Bounds of the pipeline specification.                                   *)
(***************************************************************************)
MaxAnalyses == 2    \* rows of the analyses table
MaxRows == 2        \* data rows of the listing table
MaxChunks == 2      \* pieces of a text in the two-stage strategy

\* The minutes URLs the listing can name.  Document.url is unique, so the
\* documents table never holds more rows than there are URLs.
URLs == {"u1", "u2"}
DocIds == 1..Cardinality(URLs)

\* models.py DocumentStatus
PENDING == "pending"
SCRAPED == "scraped"
ANALYZING == "analyzing"
ANALYZED == "analyzed"
ERROR == "error"
DocumentStatus == {PENDING, SCRAPED, ANALYZING, ANALYZED, ERROR}

\* models.py AnalysisType
CUSTOM_PROMPT == "custom_prompt"

(***************************************************************************)
(* Values.  A document text is represented by its length; Python's None   *)
(* for an Optional[str] content is NoContent.  A model response is a       *)
(* string, "" being the empty response; a raised call is LLMRaised.        *)
(***************************************************************************)
NoContent == -1
\* analyze_document's local content before line 50 has assigned it.
Unassigned == -3
ContentLens == {0, 4000, 40000}
FetchOutcomes == {NoContent} \cup ContentLens
\* The length of the prompt get_custom_prompt() returns.
ConfiguredPromptLen == 400

\* The length of the prompt of an analysis request: the configured one, or
\* that of a long custom_prompt sent with the request.
PromptLens == {ConfiguredPromptLen, 32000}

\* analyzer.py line 59: only the request of routers/documents.py line 135
\* passes a custom_prompt; analyze_pending_documents passes none.
PromptsOf(operation) ==
    IF operation = "analyze_request" THEN PromptLens ELSE {ConfiguredPromptLen}

NoResponse == "None"
LLMRaised == "raised"
Responses == {"", "r1"}
LLMOutcomes == Responses \cup {LLMRaised}
\* The summary the model returns for chunk i (analyzer.py line 174).
SummaryOf(i) ==
    IF i = 1 THEN "s1" ELSE IF i = 2 THEN "s2" ELSE IF i = 3 THEN "s3" ELSE "s4"

\* A summarization call raises or returns a summary; the code appends
\* whatever it returns (analyzer.py line 175).  The outcomes of the summarization calls of n chunks: chunk i's call
\* raises or returns the summary of chunk i.
SummaryOutcomes(n) ==
    {[i \in 1..n |-> IF i \in ok THEN SummaryOf(i) ELSE LLMRaised] : ok \in SUBSET (1..n)}

\* Document.file_path is NULL (NoPath) or the S3 key; the key written by
\* _get_document_content is a function of the document's id and title.
NoPath == 0
FileKey(d) == d
NoObject == -2

\* Mutant of ContentMissing: only None counts, "" passes as content.
ContentMissingNoneOnly(c) == c = NoContent

\* analyzer.py line 51: "not content".
ContentMissing(c) == c = NoContent \/ c = 0

\* Mutant of AnalysisMissing: only None counts, "" passes as a result.
AnalysisMissingNoneOnly(a) == a = NoResponse

\* analyzer.py line 64: "not analysis_content".
AnalysisMissing(a) == a = NoResponse \/ a = ""

VARIABLES
    content,        \* _chunk_content: the text being split
    max_chars,      \* _chunk_content: the size ceiling
    chunks,         \* _chunk_content: the pieces produced so far
    current_pos,    \* _chunk_content: start of the next piece
    cpc,            \* _chunk_content: "start", "loop" or "done"
    documents,      \* committed rows of table documents (id = index)
    analyses,       \* committed rows of table analyses
    cache,          \* S3 bucket: key -> stored text, or NoObject
    op,             \* caller-facing operation in progress
    pc,             \* position inside the operation
    available_docs, \* check_for_new_documents: parsed listing
    new_documents,  \* check_for_new_documents: Document objects added
    queue,          \* documents the running loop still has to process
    cur,            \* document of the running scrape/analyze call
    doc_content,    \* analyze_document: content
    prompt,         \* analyze_document: prompt (its length)
    pending_path,   \* file_path assigned in the session, not yet committed
    llm_calls,      \* model calls made by the running analyze_document
    analysis_content, \* analyze_document: analysis_content
    cache_read,     \* _get_document_content: what download_text_content gave
    fetch_calls,    \* _get_document_content: calls of download_document_content
    upload,         \* _get_document_content: "none", or how the upload ended
    document_id,    \* routers/documents.py analyze_document: the id requested
    analyzed_count, \* analyze_pending_documents: analyzed_count
    pending_docs,   \* analyze_pending_documents: pending_docs
    result,         \* outcome of the service call that just finished
    response,       \* what the caller of the operation last received
    h_analyses,     \* history: analyses when analyze_document was entered
    h_status,       \* history: status when analyze_document was entered
    h_documents,    \* history: documents when discovery was entered
    prev_listing,   \* history: URLs listed to the discovery that returned
                    \* last, while no analysis has run since
    repeat,         \* history: this discovery sees prev_listing again
    h_old,          \* history: number of documents when the operation began
    listing_page,   \* get_meeting_minutes_urls: what the listing URL served
    listing,        \* get_meeting_minutes_urls: the list returned
    http_response,  \* download_document_content: what the document URL served
    extraction,     \* download_document_content: the extractor that was used
    downloaded,     \* download_document_content: the value returned
    spc,            \* position of the scraper function under study
    callers         \* overlapping callers: each one's operation and position

chunkVars == <<content, max_chars, chunks, current_pos, cpc>>

dbVars == <<documents, analyses, cache>>

ctlVars == <<op, pc, queue, cur, result, response>>

discVars == <<available_docs, new_documents>>

resolverVars == <<cache_read, fetch_calls, upload>>

anVars == <<doc_content, prompt, pending_path, llm_calls, analysis_content, resolverVars>>

reqVars == <<document_id, analyzed_count, pending_docs>>

histVars == <<h_analyses, h_status, h_documents, prev_listing, repeat, h_old>>

pipeVars == <<dbVars, ctlVars, discVars, anVars, reqVars, histVars>>

scraperVars == <<listing_page, listing, http_response, extraction, downloaded, spc>>

extraVars == <<scraperVars, callers>>

vars == <<chunkVars, pipeVars, extraVars>>

NoListing == {""}

\* No operation is running.
PipeLocalsIdle ==
    /\ op = "idle"
    /\ pc = "idle"
    /\ available_docs = <<>>
    /\ new_documents = <<>>
    /\ queue = <<>>
    /\ cur = 0
    /\ doc_content = Unassigned
    /\ prompt = 0
    /\ pending_path = NoPath
    /\ llm_calls = <<>>
    /\ analysis_content = NoResponse
    /\ cache_read = Unassigned
    /\ fetch_calls = 0
    /\ upload = "none"
    /\ document_id = 0
    /\ analyzed_count = 0
    /\ pending_docs = <<>>
    /\ result = "none"
    /\ response = "none"
    /\ h_analyses = <<>>
    /\ h_status = "none"
    /\ h_documents = <<>>
    /\ prev_listing = NoListing
    /\ repeat = FALSE
    /\ h_old = 0

PipeIdle ==
    /\ documents = <<>>
    /\ analyses = <<>>
    /\ cache = [k \in DocIds |-> NoObject]
    /\ PipeLocalsIdle

\* No listing has been requested: the page is the one of a failed request.
NoPage == [fetch_ok |-> FALSE, has_table |-> FALSE, rows |-> <<>>]

\* session.get raised (scraper.py line 128): there is no response.
NoHttpResponse == [ok |-> FALSE, content_type |-> "", url |-> "", body |-> "none"]

ScraperIdle ==
    /\ listing_page = NoPage
    /\ listing = <<>>
    /\ http_response = NoHttpResponse
    /\ extraction = "none"
    /\ downloaded = Unassigned
    /\ spc = "idle"

\* The threads that serve overlapping requests, each with its own Session.
Procs == {"p1", "p2"}

IdleCaller == [op |-> "idle", pc |-> "idle", doc |-> 0, queue |-> <<>>]

ExtraIdle ==
    /\ ScraperIdle
    /\ callers = [p \in Procs |-> IdleCaller]

ChunkIdle ==
    /\ content = <<>>
    /\ max_chars = 1
    /\ chunks = <<>>
    /\ current_pos = 0
    /\ cpc = "idle"

ChunkInit ==
    /\ content \in Texts
    /\ max_chars \in 1..MaxChunkSize
    /\ chunks = <<>>
    /\ current_pos = 0
    /\ cpc = "start"
    /\ PipeIdle
    /\ ExtraIdle

\* _chunk_content called with any integer as max_chars, the values below 1
\* included, which the signature (line 203) does not exclude.
LoopTexts == UNION {TextsOfLen(n) : n \in 0..MaxLoopTextLen}

ChunkAnySizeInit ==
    /\ content \in LoopTexts
    /\ max_chars \in (0 - MaxNegSize)..MaxChunkSize
    /\ chunks = <<>>
    /\ current_pos = 0
    /\ cpc = "start"
    /\ PipeIdle
    /\ ExtraIdle

\* lines 214-215: a text that fits is returned as the only piece.
ChunkWhole ==
    /\ cpc = "start"
    /\ Len(content) <= max_chars
    /\ chunks' = <<content>>
    /\ cpc' = "done"
    /\ UNCHANGED <<content, max_chars, current_pos, pipeVars, extraVars>>

\* Mutant of ChunkEnter: the loop is entered for a text that fits, too.
ChunkEnterAlways ==
    /\ cpc = "start"
    /\ cpc' = "loop"
    /\ UNCHANGED <<content, max_chars, chunks, current_pos, pipeVars, extraVars>>

\* lines 217-218: otherwise the loop starts at position 0.
ChunkEnter ==
    /\ cpc = "start"
    /\ Len(content) > max_chars
    /\ cpc' = "loop"
    /\ UNCHANGED <<content, max_chars, chunks, current_pos, pipeVars, extraVars>>

\* lines 220-237: one iteration of the loop.  A call that has made more
\* pieces than the text has characters is followed no further: a call with
\* max_chars >= 1 never gets there, and the others would go on for ever.
ChunkStep ==
    /\ cpc = "loop"
    /\ current_pos < Len(content)
    /\ Len(chunks) <= Len(content)
    /\ LET end_pos == ChunkEnd(content, current_pos, max_chars)
       IN  /\ chunks' = Append(chunks, Slice(content, current_pos, end_pos))
           /\ current_pos' = end_pos
    /\ UNCHANGED <<content, max_chars, cpc, pipeVars, extraVars>>

\* line 239: the loop condition fails and the pieces are returned.
ChunkReturn ==
    /\ cpc = "loop"
    /\ current_pos >= Len(content)
    /\ cpc' = "done"
    /\ UNCHANGED <<content, max_chars, chunks, current_pos, pipeVars, extraVars>>

(***************************************************************************)
(* scraper.py get_meeting_minutes_urls.  A listing page is the outcome of  *)
(* the request, whether a table was found, and the data rows of the table. *)
(* A row has a number of cells, the href of the first link of its third    *)
(* cell, and the href of the first link, in cell order, whose target       *)
(* contains "minutes".  An href is <<target, form>>, the target being the  *)
(* absolute URL it denotes.                                                *)
(***************************************************************************)
NoHref == <<"", "none">>
Hrefs == {<<u, "abs">> : u \in URLs}

\* Link targets written relative to the site: with a leading '/' and without.
RelativeHrefs == {<<"/m1", "rooted">>, <<"m1", "rel">>}

AllHrefs == Hrefs \cup RelativeHrefs

RowsOf(hrefs) ==
    [ncells : {2, 3}, third : hrefs \cup {NoHref}, scan : hrefs \cup {NoHref}]

Rows == RowsOf(Hrefs)

RECURSIVE SeqsUpTo(_, _)
SeqsUpTo(S, n) ==
    IF n = 0 THEN {<<>>}
    ELSE LET shorter == SeqsUpTo(S, n - 1)
         IN  shorter \cup {Append(q, x) : q \in {r \in shorter : Len(r) = n - 1}, x \in S}

PagesOf(hrefs) ==
    {[fetch_ok |-> FALSE, has_table |-> FALSE, rows |-> <<>>],
     [fetch_ok |-> TRUE, has_table |-> FALSE, rows |-> <<>>]}
    \cup {[fetch_ok |-> TRUE, has_table |-> TRUE, rows |-> r] :
             r \in SeqsUpTo(RowsOf(hrefs), MaxRows)}

\* The pages whose links are all written as absolute URLs.
Pages == PagesOf(Hrefs)

\* lines 70-91: the minutes link of a row, NoHref when the row has none.
MinutesHref(row) ==
    IF row.ncells < 3 THEN NoHref
    ELSE IF row.third # NoHref THEN row.third
    ELSE row.scan

\* f"{self.base_url}{minutes_url}" for the rooted path of the site.
BaseJoin(path) == IF path = "/m1" THEN "u1" ELSE path

\* lines 98-99: base_url is put before an href that starts with '/'; any
\* other href is taken as written.
AbsoluteUrl(href) == IF href[2] = "rooted" THEN BaseJoin(href[1]) ELSE href[1]

RECURSIVE RowsToDocs(_)
RowsToDocs(rows) ==
    IF rows = <<>> THEN <<>>
    ELSE LET href == MinutesHref(Head(rows))
         IN  (IF href = NoHref THEN <<>> ELSE <<AbsoluteUrl(href)>>)
             \o RowsToDocs(Tail(rows))

\* lines 36-115: the candidate URLs, in listing order; [] on any failure.
GetMeetingMinutesUrls(page) ==
    IF ~page.fetch_ok \/ ~page.has_table THEN <<>>
    ELSE RowsToDocs(page.rows)

\* Every value get_meeting_minutes_urls can return on a page of Pages.
Listings == {GetMeetingMinutesUrls(page) : page \in Pages}

SeqRange(q) == {q[i] : i \in 1..Len(q)}

(***************************************************************************)
(* Database helpers.                                                       *)
(***************************************************************************)
ExistingUrls == {documents[i].url : i \in 1..Len(documents)}

\* Mutant of NewCandidates: the candidates are not compared with existing_urls.
NewCandidatesUnfiltered(avail, existing) == avail

\* scraper.py lines 241-252: one Document per candidate whose url is not in
\* existing_urls, the set read before the loop.
NewCandidates(avail, existing) == SelectSeq(avail, LAMBDA u : u \notin existing)

\* scraper.py lines 94-95: the text of the row's date cell; every minutes
\* link of the listing stands in a row of its own date.
DateText(u) == IF u = "u1" THEN "d1" ELSE "d2"

\* scraper.py line 102: 'title'
TitleOf(u) == <<"Board Meeting Minutes - ", DateText(u)>>

NewDocument(u) == [url |-> u, title |-> TitleOf(u), status |-> PENDING, file_path |-> NoPath]

RECURSIVE NewDocumentRows(_)
NewDocumentRows(urls) ==
    IF urls = <<>> THEN <<>>
    ELSE <<NewDocument(Head(urls))>> \o NewDocumentRows(Tail(urls))

\* models.py line 36: url is unique; an INSERT that breaks it fails the commit.
UniqueUrls(urls, existing) ==
    /\ \A i, j \in 1..Len(urls) : i # j => urls[i] # urls[j]
    /\ \A i \in 1..Len(urls) : urls[i] \notin existing

\* Mutant of NewAnalysis: the row carries no document id.
NewAnalysisUnlinked(d, text) ==
    [document_id |-> 0, analysis_type |-> CUSTOM_PROMPT, content |-> text]

\* analyzer.py lines 71-75
NewAnalysis(d, text) ==
    [document_id |-> d, analysis_type |-> CUSTOM_PROMPT, content |-> text]

\* Mutant of AddAnalysis: the new row replaces the document's earlier rows.
AddAnalysisReplacing(rows, a) ==
    Append(SelectSeq(rows, LAMBDA r : r.document_id # a.document_id), a)

\* analyzer.py line 77: db.add(analysis) inserts a row, it replaces none.
AddAnalysis(rows, a) == Append(rows, a)

\* Mutant of Committed: the status is written to every row of the table.
CommittedEveryRow(d, s) ==
    [i \in 1..Len(documents) |->
        [documents[i] EXCEPT !.status = s,
                             !.file_path = IF i = d /\ pending_path # NoPath
                                           THEN pending_path ELSE @]]

\* A successful db.commit() flushes the session: the status just assigned
\* and a file_path assigned since the last commit.
Committed(d, s) ==
    [documents EXCEPT ![d].status = s,
                      ![d].file_path = IF pending_path = NoPath THEN @ ELSE pending_path]

AnalysesOf(d) == SelectSeq(analyses, LAMBDA a : a.document_id = d)

(***************************************************************************)
(* Program constants of _analyze_content_with_chunking.                    *)
(***************************************************************************)
CharsPerToken == 4
ResponseReserve == 500
TokenBudget == 8000
SummaryChunkSize == 20000

\* Mutant of EstimatedTokens: the prompt is not counted.
EstimatedTokensTextOnly(len, plen) == (len \div CharsPerToken) + ResponseReserve

\* analyzer.py line 131
EstimatedTokens(len, plen) ==
    (len \div CharsPerToken) + (plen \div CharsPerToken) + ResponseReserve

\* The number of pieces _chunk_content(content, 20000) can return for a text
\* of the given length: one when it fits, else at least ceil(len / 20000)
\* (every piece is at most 20000 long), more when breakpoints shorten pieces.
ChunkCounts(len) ==
    IF len <= SummaryChunkSize THEN {1}
    ELSE ((len + SummaryChunkSize - 1) \div SummaryChunkSize)..MaxChunks

Call(kind, full, chunk, sums, out) ==
    [kind |-> kind, full_text |-> full, chunk |-> chunk, summaries |-> sums, out |-> out]

\* A call that is not about one chunk.
NoChunk == <<0, 0>>

\* Mutant of SummaryCalls: the loop ends at the first call that raises.
RECURSIVE SummaryCallsUntilRaise(_, _)
SummaryCallsUntilRaise(outs, i) ==
    IF i > Len(outs) THEN <<>>
    ELSE <<Call("summary", Len(outs) = 1, <<i, Len(outs)>>, <<>>, outs[i])>>
         \o (IF outs[i] = LLMRaised THEN <<>> ELSE SummaryCallsUntilRaise(outs, i + 1))

\* lines 171-178: one summarization call per chunk, chunk i of len(chunks),
\* whether or not an earlier call raised; the only chunk of a text that fits
\* in SummaryChunkSize is the text itself (lines 214-215).
RECURSIVE SummaryCalls(_, _)
SummaryCalls(outs, i) ==
    IF i > Len(outs) THEN <<>>
    ELSE <<Call("summary", Len(outs) = 1, <<i, Len(outs)>>, <<>>, outs[i])>>
         \o SummaryCalls(outs, i + 1)

\* line 185: "\n\n".join(chunk_summaries), as the sequence of its parts.
RECURSIVE CombinedSummary(_)
CombinedSummary(sums) ==
    IF Len(sums) <= 1 THEN sums
    ELSE <<Head(sums), "\n\n">> \o CombinedSummary(Tail(sums))

\* Mutant of ChunkSummaries: the summary of the first chunk is lost.
ChunkSummariesTail(outs) ==
    LET kept == SelectSeq(outs, LAMBDA o : o # LLMRaised)
    IN  IF kept = <<>> THEN <<>> ELSE Tail(kept)

\* lines 171-178: the summaries of the chunks whose call did not raise.
ChunkSummaries(outs) == SelectSeq(outs, LAMBDA o : o # LLMRaised)

\* lines 143-147, 196-201: the value returned after a decisive call.
Returned(out) == IF out = LLMRaised THEN NoResponse ELSE out

(***************************************************************************)
(* Pipeline: Init and the caller-facing entry points.                      *)
(***************************************************************************)
Init == PipeIdle /\ ChunkIdle /\ ExtraIdle

AnalyzeLocalsReset ==
    /\ doc_content' = Unassigned
    /\ prompt' = 0
    /\ pending_path' = NoPath
    /\ llm_calls' = <<>>
    /\ analysis_content' = NoResponse
    /\ cache_read' = Unassigned
    /\ fetch_calls' = 0
    /\ upload' = "none"

\* The operation is over: the caller has its answer, the locals are gone.
Finish(resp) ==
    /\ op' = "idle"
    /\ pc' = "responded"
    /\ queue' = <<>>
    /\ cur' = 0
    /\ result' = "none"
    /\ response' = resp
    /\ available_docs' = <<>>
    /\ new_documents' = <<>>
    /\ repeat' = FALSE
    /\ h_analyses' = <<>>
    /\ h_status' = "none"
    /\ h_documents' = <<>>
    /\ analyzed_count' = 0
    /\ pending_docs' = <<>>
    /\ AnalyzeLocalsReset

\* The answer has been delivered; the next operation can start.
Respond ==
    /\ pc = "responded"
    /\ pc' = "idle"
    /\ response' = "none"
    /\ document_id' = 0
    /\ h_status' = "none"
    /\ h_old' = Len(documents)
    /\ UNCHANGED <<chunkVars, extraVars, dbVars, op, queue, cur, result, discVars, anVars,
                   analyzed_count, pending_docs,
                   h_analyses, h_documents, prev_listing, repeat>>

\* analyze_document is entered for document d (analyzer.py line 30).
EnterAnalyze(d) ==
    /\ Len(analyses) < MaxAnalyses
    /\ cur' = d
    /\ pc' = "an_begin"
    /\ result' = "none"
    /\ h_analyses' = analyses
    /\ h_status' = documents[d].status
    /\ prev_listing' = NoListing
    /\ UNCHANGED h_old
    /\ AnalyzeLocalsReset

\* routers/documents.py scrape_documents (line 83)
StartScrapeRequest ==
    /\ pc = "idle"
    /\ op' = "scrape_request"
    /\ pc' = "disc_collect"
    /\ UNCHANGED <<chunkVars, extraVars, dbVars, queue, cur, result, response, discVars, anVars, reqVars, histVars>>

\* scheduler.py run_scraping_and_analysis (line 37)
StartScheduledRun ==
    /\ pc = "idle"
    /\ op' = "scheduled_run"
    /\ pc' = "disc_collect"
    /\ UNCHANGED <<chunkVars, extraVars, dbVars, queue, cur, result, response, discVars, anVars, reqVars, histVars>>

\* routers/analysis.py analyze_all_pending (line 74)
StartAnalyzeAll ==
    /\ pc = "idle"
    /\ op' = "analyze_all"
    /\ pc' = "batch_scan"
    /\ UNCHANGED <<chunkVars, extraVars, dbVars, queue, cur, result, response, discVars, anVars, reqVars, histVars>>

\* Mutant of Eligible: a document in ERROR may be analyzed again, too.
EligibleOrError(status) == status \in {SCRAPED, ANALYZED, ERROR}

\* routers/documents.py line 125: the states in which analysis may be requested.
Eligible(status) == status \in {SCRAPED, ANALYZED}

\* routers/documents.py analyze_document, lines 120-123: unknown id.
AnalyzeRequestNotFound ==
    /\ pc = "idle"
    /\ document_id' = Len(documents) + 1
    /\ pc' = "responded"
    /\ response' = "404"
    /\ UNCHANGED <<chunkVars, extraVars, dbVars, op, queue, cur, result, discVars, anVars,
                   analyzed_count, pending_docs, histVars>>

\* routers/documents.py analyze_document, lines 125-129: ineligible state;
\* the request is answered 400 and analyze_document is not called.
AnalyzeRequestRejected ==
    /\ pc = "idle"
    /\ \E d \in 1..Len(documents) :
          /\ ~Eligible(documents[d].status)
          /\ document_id' = d
          /\ h_status' = documents[d].status
    /\ pc' = "responded"
    /\ response' = "400"
    /\ UNCHANGED <<chunkVars, extraVars, dbVars, op, queue, cur, result, discVars, anVars,
                   analyzed_count, pending_docs,
                   h_analyses, h_documents, prev_listing, repeat, h_old>>

\* routers/documents.py analyze_document, lines 131-135: the call is made.
AnalyzeRequest ==
    /\ pc = "idle"
    /\ \E d \in 1..Len(documents) :
          /\ Eligible(documents[d].status)
          /\ document_id' = d
          /\ EnterAnalyze(d)
    /\ op' = "analyze_request"
    /\ UNCHANGED <<chunkVars, extraVars, dbVars, queue, response, discVars,
                   analyzed_count, pending_docs, h_documents, repeat>>

(***************************************************************************)
(* scraper.py check_for_new_documents                                      *)
(***************************************************************************)
\* lines 234-252: parse the listing, read existing_urls, add the new rows
\* to the session.
DiscoverCollect ==
    /\ pc = "disc_collect"
    /\ \E avail \in Listings :
          LET fresh == NewCandidates(avail, ExistingUrls)
          IN  /\ available_docs' = avail
              /\ new_documents' = fresh
              /\ repeat' = (SeqRange(avail) = prev_listing)
    /\ h_documents' = documents
    /\ pc' = "disc_commit"
    /\ UNCHANGED <<chunkVars, extraVars, dbVars, op, queue, cur, result, response, anVars,
                   reqVars, h_analyses, h_status, prev_listing, h_old>>

\* lines 254-256, 260: the batch is committed and returned.
DiscoverCommitOk ==
    /\ pc = "disc_commit"
    /\ new_documents # <<>>
    /\ UniqueUrls(new_documents, ExistingUrls)
    /\ documents' = documents \o NewDocumentRows(new_documents)
    /\ result' = "returned"
    /\ prev_listing' = SeqRange(available_docs)
    /\ pc' = "disc_return"
    /\ UNCHANGED <<chunkVars, extraVars, analyses, cache, op, queue, cur, response, discVars, anVars,
                   reqVars, h_analyses, h_status, h_documents, repeat, h_old>>

\* line 255: db.commit() raises (the store is unavailable, or the batch
\* breaks the unique constraint on url); nothing is inserted and the
\* exception leaves check_for_new_documents.
DiscoverCommitFail ==
    /\ pc = "disc_commit"
    /\ new_documents # <<>>
    /\ result' = "raised"
    /\ prev_listing' = NoListing
    /\ pc' = "disc_return"
    /\ UNCHANGED <<chunkVars, extraVars, dbVars, op, queue, cur, response, discVars, anVars,
                   reqVars, h_analyses, h_status, h_documents, repeat, h_old>>

\* lines 257-260: nothing new, nothing committed.
DiscoverNothing ==
    /\ pc = "disc_commit"
    /\ new_documents = <<>>
    /\ result' = "returned"
    /\ prev_listing' = SeqRange(available_docs)
    /\ pc' = "disc_return"
    /\ UNCHANGED <<chunkVars, extraVars, dbVars, op, queue, cur, response, discVars, anVars,
                   reqVars, h_analyses, h_status, h_documents, repeat, h_old>>

\* Mutant of ScrapeTargets: every PENDING row of the table is scraped.
ScrapeTargetsAllPending(created, before, docs) ==
    SelectSeq([d \in 1..Len(docs) |-> d], LAMBDA d : docs[d].status = PENDING)

\* scheduler.py line 42, routers/documents.py line 87: the loops iterate over
\* new_documents, the list check_for_new_documents returned, which holds the
\* rows it created (scraper.py lines 241-249): the rows after those that
\* existed before.
ScrapeTargets(created, before, docs) ==
    [i \in 1..Len(created) |-> Len(before) + i]

\* The callers of check_for_new_documents: scheduler.py lines 37-43 and
\* routers/documents.py lines 83-89 go on to scrape the returned documents,
\* which are now the loop's queue; the locals of the call are gone.
DiscoverReturned ==
    /\ pc = "disc_return"
    /\ result = "returned"
    /\ queue' = ScrapeTargets(new_documents, h_documents, documents)
    /\ pc' = "scrape_next"
    /\ result' = "none"
    /\ available_docs' = <<>>
    /\ new_documents' = <<>>
    /\ h_documents' = <<>>
    /\ repeat' = FALSE
    /\ UNCHANGED <<chunkVars, extraVars, dbVars, op, cur, response, anVars, reqVars,
                   h_analyses, h_status, prev_listing, h_old>>

\* scheduler.py lines 55-56, routers/documents.py lines 98-100: the
\* exception of a step ends the operation.
OperationAborted ==
    /\ pc \in {"disc_return", "sc_return", "an_return"}
    /\ result = "raised"
    /\ Finish(IF op = "scheduled_run" THEN "logged" ELSE "500")
    /\ UNCHANGED <<chunkVars, extraVars, dbVars, document_id, prev_listing, h_old>>

(***************************************************************************)
(* The scrape loop of the callers and scraper.py scrape_document           *)
(***************************************************************************)
\* scheduler.py lines 42-43, routers/documents.py lines 88-89: next document.
ScrapeNext ==
    /\ pc = "scrape_next"
    /\ queue # <<>>
    /\ cur' = Head(queue)
    /\ queue' = Tail(queue)
    /\ pc' = "sc_begin"
    /\ result' = "none"
    /\ UNCHANGED <<chunkVars, extraVars, dbVars, op, response, discVars, anVars, reqVars, histVars>>

\* routers/documents.py lines 92-96: the scrape request answers.
ScrapeRequestDone ==
    /\ pc = "scrape_next"
    /\ queue = <<>>
    /\ op = "scrape_request"
    /\ Finish("200")
    /\ UNCHANGED <<chunkVars, extraVars, dbVars, document_id, prev_listing, h_old>>

\* Mutant of ScrapeLoopDone: the scheduled run ends after the scrape loop.
ScrapeLoopDoneSkipsBatch ==
    /\ pc = "scrape_next"
    /\ queue = <<>>
    /\ op = "scheduled_run"
    /\ Finish("completed")
    /\ UNCHANGED <<chunkVars, extraVars, dbVars, document_id, prev_listing, h_old>>

\* scheduler.py lines 46-50: the scheduled run goes on to the batch analysis.
ScrapeLoopDone ==
    /\ pc = "scrape_next"
    /\ queue = <<>>
    /\ op = "scheduled_run"
    /\ pc' = "batch_scan"
    /\ cur' = 0
    /\ result' = "none"
    /\ UNCHANGED <<chunkVars, extraVars, dbVars, op, queue, response, discVars, anVars, reqVars, histVars>>

\* scrape_document lines 277-278: SCRAPED is committed before the download.
ScrapeBeginOk ==
    /\ pc = "sc_begin"
    /\ documents' = Committed(cur, SCRAPED)
    /\ pc' = "sc_download"
    /\ UNCHANGED <<chunkVars, extraVars, analyses, cache, op, queue, cur, result, response,
                   discVars, anVars, reqVars, histVars>>

\* line 278: the commit raises.
ScrapeBeginFail ==
    /\ pc = "sc_begin"
    /\ pc' = "sc_except"
    /\ UNCHANGED <<chunkVars, extraVars, dbVars, op, queue, cur, result, response,
                   discVars, anVars, reqVars, histVars>>

\* lines 281-291: content was downloaded; SCRAPED is committed again.
ScrapeStoreOk ==
    /\ pc = "sc_download"
    /\ \E fetched \in FetchOutcomes : ~ContentMissing(fetched)
    /\ documents' = Committed(cur, SCRAPED)
    /\ result' = "True"
    /\ pc' = "sc_return"
    /\ UNCHANGED <<chunkVars, extraVars, analyses, cache, op, queue, cur, response,
                   discVars, anVars, reqVars, histVars>>

\* line 288: the commit raises.
ScrapeStoreFail ==
    /\ pc = "sc_download"
    /\ \E fetched \in FetchOutcomes : ~ContentMissing(fetched)
    /\ pc' = "sc_except"
    /\ UNCHANGED <<chunkVars, extraVars, dbVars, op, queue, cur, result, response,
                   discVars, anVars, reqVars, histVars>>

\* lines 292-296: no content; ERROR is committed.
ScrapeErrorOk ==
    /\ pc = "sc_download"
    /\ \E fetched \in FetchOutcomes : ContentMissing(fetched)
    /\ documents' = Committed(cur, ERROR)
    /\ result' = "False"
    /\ pc' = "sc_return"
    /\ UNCHANGED <<chunkVars, extraVars, analyses, cache, op, queue, cur, response,
                   discVars, anVars, reqVars, histVars>>

\* line 294: the commit raises.
ScrapeErrorFail ==
    /\ pc = "sc_download"
    /\ \E fetched \in FetchOutcomes : ContentMissing(fetched)
    /\ pc' = "sc_except"
    /\ UNCHANGED <<chunkVars, extraVars, dbVars, op, queue, cur, result, response,
                   discVars, anVars, reqVars, histVars>>

\* lines 298-302: the handler commits ERROR.
ScrapeExceptOk ==
    /\ pc = "sc_except"
    /\ documents' = Committed(cur, ERROR)
    /\ result' = "False"
    /\ pc' = "sc_return"
    /\ UNCHANGED <<chunkVars, extraVars, analyses, cache, op, queue, cur, response,
                   discVars, anVars, reqVars, histVars>>

\* line 300: the handler's own commit raises and leaves scrape_document.
ScrapeExceptFail ==
    /\ pc = "sc_except"
    /\ result' = "raised"
    /\ pc' = "sc_return"
    /\ UNCHANGED <<chunkVars, extraVars, dbVars, op, queue, cur, response,
                   discVars, anVars, reqVars, histVars>>

\* scrape_document returned True or False: the loop goes on.
ScrapeReturned ==
    /\ pc = "sc_return"
    /\ result \in {"True", "False"}
    /\ pc' = "scrape_next"
    /\ cur' = 0
    /\ result' = "none"
    /\ UNCHANGED <<chunkVars, extraVars, dbVars, op, queue, response, discVars, anVars, reqVars, histVars>>

(***************************************************************************)
(* analyzer.py analyze_pending_documents                                   *)
(***************************************************************************)
\* lines 279-283: the SCRAPED documents at the time of the scan, in id order.
\* Mutant of PendingDocs: the scan also returns the documents in ERROR.
PendingDocsWithError ==
    SelectSeq([i \in 1..Len(documents) |-> i],
              LAMBDA d : documents[d].status \in {SCRAPED, ERROR})

PendingDocs ==
    SelectSeq([i \in 1..Len(documents) |-> i], LAMBDA d : documents[d].status = SCRAPED)

\* lines 279-283: the scan; analyzed_count starts at 0.
BatchScan ==
    /\ pc = "batch_scan"
    /\ pending_docs' = PendingDocs
    /\ queue' = PendingDocs
    /\ analyzed_count' = 0
    /\ pc' = "batch_next"
    /\ UNCHANGED <<chunkVars, extraVars, dbVars, op, cur, result, response, discVars, anVars,
                   document_id, histVars>>

\* lines 285-286: analyze_document is called on the next document.
BatchNext ==
    /\ pc = "batch_next"
    /\ queue # <<>>
    /\ EnterAnalyze(Head(queue))
    /\ queue' = Tail(queue)
    /\ UNCHANGED <<chunkVars, extraVars, dbVars, op, response, discVars, reqVars, h_documents, repeat>>

\* lines 291-292 and the callers: the batch is over.
BatchDone ==
    /\ pc = "batch_next"
    /\ queue = <<>>
    /\ Finish(IF op = "scheduled_run" THEN "completed" ELSE "200")
    /\ UNCHANGED <<chunkVars, extraVars, dbVars, document_id, prev_listing, h_old>>

(***************************************************************************)
(* analyzer.py analyze_document                                            *)
(***************************************************************************)
\* lines 46-47: ANALYZING is committed.
AnalyzeBeginOk ==
    /\ pc = "an_begin"
    /\ documents' = Committed(cur, ANALYZING)
    /\ pc' = "an_content"
    /\ UNCHANGED <<chunkVars, extraVars, analyses, cache, op, queue, cur, result, response,
                   discVars, anVars, reqVars, histVars>>

\* line 47: the commit raises.
AnalyzeBeginFail ==
    /\ pc = "an_begin"
    /\ pc' = "an_except"
    /\ UNCHANGED <<chunkVars, extraVars, dbVars, op, queue, cur, result, response,
                   discVars, anVars, reqVars, histVars>>

\* storage.py download_text_content: None on any error, else the body of
\* the object as the bucket serves it, which is the stored text or, for an
\* object that was emptied in the bucket, the empty text.
CacheReads(key) ==
    {NoContent} \cup (IF cache[key] = NoObject THEN {} ELSE {cache[key], 0})

\* Mutant of ResolvedContent: a failed upload fails the resolution.
ResolvedContentNeedsUpload(fetched, stored) ==
    IF stored = "failed" THEN NoContent ELSE fetched

\* analyzer.py line 117: the downloaded content is returned whatever the
\* upload did.
ResolvedContent(fetched, stored) == fetched

\* Mutant of ShouldUpload: downloaded text is stored whether or not the
\* document has a file_path.
ShouldUploadAlways(fetched, path) == ~ContentMissing(fetched)

\* analyzer.py line 111: "content and not document.file_path".
ShouldUpload(fetched, path) == ~ContentMissing(fetched) /\ path = NoPath

\* Mutant of CacheHit: the cached text is never used.
CacheHitIgnored(path, cached) == FALSE

\* analyzer.py lines 101-104: the document has a file_path and the cache
\* read gave text.
CacheHit(path, cached) == path # NoPath /\ ~ContentMissing(cached)

\* lines 50-51, _get_document_content (lines 100-117): the cached text when
\* the document has a file_path and the read gives text; else the download,
\* stored under the document's key when the document has no file_path.
AnalyzeGetContent ==
    /\ pc = "an_content"
    /\ LET path == documents[cur].file_path
       IN  \E cached \in (IF path = NoPath THEN {Unassigned} ELSE CacheReads(path)) :
              /\ cache_read' = cached
              /\ IF CacheHit(path, cached)
                 THEN /\ doc_content' = cached
                      /\ UNCHANGED <<cache, pending_path, fetch_calls, upload>>
                 ELSE /\ fetch_calls' = fetch_calls + 1
                      /\ \E fetched \in FetchOutcomes, stored \in {"ok", "failed"} :
                            IF ShouldUpload(fetched, path)
                            THEN /\ upload' = stored
                                 /\ doc_content' = ResolvedContent(fetched, stored)
                                 /\ IF stored = "ok"
                                    THEN /\ cache' = [cache EXCEPT ![FileKey(cur)] = fetched]
                                         /\ pending_path' = FileKey(cur)
                                    ELSE UNCHANGED <<cache, pending_path>>
                            ELSE /\ stored = "ok"
                                 /\ doc_content' = fetched
                                 /\ UNCHANGED <<cache, pending_path, upload>>
    /\ pc' = IF ContentMissing(doc_content') THEN "an_nocontent" ELSE "an_model"
    /\ UNCHANGED <<chunkVars, extraVars, documents, analyses, op, queue, cur, result, response,
                   discVars, prompt, llm_calls, analysis_content, reqVars, histVars>>

\* Mutant of AnalyzeNoContent: False is returned without the ERROR update.
AnalyzeNoContentNoUpdate ==
    /\ pc = "an_nocontent"
    /\ pending_path' = NoPath
    /\ result' = "False"
    /\ pc' = "an_return"
    /\ UNCHANGED <<chunkVars, extraVars, dbVars, op, queue, cur, response, discVars,
                   doc_content, prompt, llm_calls, analysis_content, resolverVars,
                   reqVars, histVars>>

\* lines 52-55: no content; ERROR is committed and False returned.
AnalyzeNoContent ==
    /\ pc = "an_nocontent"
    /\ documents' = Committed(cur, ERROR)
    /\ pending_path' = NoPath
    /\ result' = "False"
    /\ pc' = "an_return"
    /\ UNCHANGED <<chunkVars, extraVars, analyses, cache, op, queue, cur, response, discVars,
                   doc_content, prompt, llm_calls, analysis_content, resolverVars,
                   reqVars, histVars>>

\* a commit of analyze_document's body raises (lines 54, 68, 79): the
\* session is rolled back, which drops the pending Analysis and the
\* uncommitted file_path, and control reaches the handler.
AnalyzeCommitFail ==
    /\ pc \in {"an_nocontent", "an_failed", "an_save"}
    /\ pending_path' = NoPath
    /\ pc' = "an_except"
    /\ UNCHANGED <<chunkVars, extraVars, dbVars, op, queue, cur, result, response, discVars,
                   doc_content, prompt, llm_calls, analysis_content, resolverVars,
                   reqVars, histVars>>

\* line 62, _analyze_content_with_chunking, direct strategy (lines 134-147).
AnalyzeDirect ==
    /\ pc = "an_model"
    /\ \E plen \in PromptsOf(op), out \in LLMOutcomes :
          /\ EstimatedTokens(doc_content, plen) <= TokenBudget
          /\ prompt' = plen
          /\ llm_calls' = <<Call("direct", TRUE, NoChunk, <<>>, out)>>
          /\ analysis_content' = Returned(out)
    /\ pc' = IF AnalysisMissing(analysis_content') THEN "an_failed" ELSE "an_save"
    /\ UNCHANGED <<chunkVars, extraVars, dbVars, op, queue, cur, result, response, discVars,
                   doc_content, pending_path, resolverVars,
                   reqVars, histVars>>

\* line 62, _analyze_content_with_chunking, two-stage strategy (lines 149-201).
AnalyzeTwoStage ==
    /\ pc = "an_model"
    /\ \E plen \in PromptsOf(op), n \in ChunkCounts(doc_content) :
          /\ EstimatedTokens(doc_content, plen) > TokenBudget
          /\ prompt' = plen
          /\ \E outs \in SummaryOutcomes(n), final \in LLMOutcomes :
                LET chunk_summaries == ChunkSummaries(outs)
                IN  IF chunk_summaries = <<>>
                    THEN /\ llm_calls' = SummaryCalls(outs, 1)
                         /\ analysis_content' = NoResponse
                    ELSE /\ llm_calls' = SummaryCalls(outs, 1)
                                \o <<Call("final", FALSE, NoChunk,
                                          CombinedSummary(chunk_summaries), final)>>
                         /\ analysis_content' = Returned(final)
    /\ pc' = IF AnalysisMissing(analysis_content') THEN "an_failed" ELSE "an_save"
    /\ UNCHANGED <<chunkVars, extraVars, dbVars, op, queue, cur, result, response, discVars,
                   doc_content, pending_path, resolverVars,
                   reqVars, histVars>>

\* Mutant of AnalyzeFailed: the failed attempt is stored as a row too.
AnalyzeFailedStoresRow ==
    /\ pc = "an_failed"
    /\ analyses' = AddAnalysis(analyses, NewAnalysis(cur, ""))
    /\ documents' = Committed(cur, ERROR)
    /\ pending_path' = NoPath
    /\ result' = "False"
    /\ pc' = "an_return"
    /\ UNCHANGED <<chunkVars, extraVars, cache, op, queue, cur, response, discVars,
                   doc_content, prompt, llm_calls, analysis_content, resolverVars,
                   reqVars, histVars>>

\* lines 64-68: no analysis; ERROR is committed and False returned.
AnalyzeFailed ==
    /\ pc = "an_failed"
    /\ documents' = Committed(cur, ERROR)
    /\ pending_path' = NoPath
    /\ result' = "False"
    /\ pc' = "an_return"
    /\ UNCHANGED <<chunkVars, extraVars, analyses, cache, op, queue, cur, response, discVars,
                   doc_content, prompt, llm_calls, analysis_content, resolverVars,
                   reqVars, histVars>>

\* lines 70-82: the Analysis row and ANALYZED are committed together.
AnalyzeSave ==
    /\ pc = "an_save"
    /\ analyses' = AddAnalysis(analyses, NewAnalysis(cur, analysis_content))
    /\ documents' = Committed(cur, ANALYZED)
    /\ pending_path' = NoPath
    /\ result' = "True"
    /\ pc' = "an_return"
    /\ UNCHANGED <<chunkVars, extraVars, cache, op, queue, cur, response, discVars,
                   doc_content, prompt, llm_calls, analysis_content, resolverVars,
                   reqVars, histVars>>

\* lines 84-88: the handler commits ERROR and returns False.
AnalyzeExceptOk ==
    /\ pc = "an_except"
    /\ documents' = Committed(cur, ERROR)
    /\ result' = "False"
    /\ pc' = "an_return"
    /\ UNCHANGED <<chunkVars, extraVars, analyses, cache, op, queue, cur, response, discVars,
                   anVars, reqVars, histVars>>

\* line 87: the handler's own commit raises and leaves analyze_document.
AnalyzeExceptFail ==
    /\ pc = "an_except"
    /\ result' = "raised"
    /\ pc' = "an_return"
    /\ UNCHANGED <<chunkVars, extraVars, dbVars, op, queue, cur, response, discVars,
                   anVars, reqVars, histVars>>

\* routers/documents.py lines 137-140: the analyze request answers.
AnalyzeRequestDone ==
    /\ pc = "an_return"
    /\ op = "analyze_request"
    /\ result \in {"True", "False"}
    /\ Finish(IF result = "True" THEN "200" ELSE "500")
    /\ UNCHANGED <<chunkVars, extraVars, dbVars, document_id, prev_listing, h_old>>

\* analyze_pending_documents lines 286-289: the batch goes on.
BatchReturned ==
    /\ pc = "an_return"
    /\ op \in {"analyze_all", "scheduled_run"}
    /\ result \in {"True", "False"}
    /\ analyzed_count' = IF result = "True" THEN analyzed_count + 1 ELSE analyzed_count
    /\ pc' = "batch_next"
    /\ cur' = 0
    /\ result' = "none"
    /\ AnalyzeLocalsReset
    /\ UNCHANGED <<chunkVars, extraVars, dbVars, op, queue, response, discVars,
                   document_id, pending_docs, histVars>>

Next ==
    \/ Respond
    \/ StartScrapeRequest \/ StartScheduledRun \/ StartAnalyzeAll
    \/ AnalyzeRequestNotFound \/ AnalyzeRequestRejected \/ AnalyzeRequest
    \/ DiscoverCollect \/ DiscoverCommitOk \/ DiscoverCommitFail \/ DiscoverNothing
    \/ DiscoverReturned \/ OperationAborted
    \/ ScrapeNext \/ ScrapeRequestDone \/ ScrapeLoopDone
    \/ ScrapeBeginOk \/ ScrapeBeginFail \/ ScrapeStoreOk \/ ScrapeStoreFail
    \/ ScrapeErrorOk \/ ScrapeErrorFail \/ ScrapeExceptOk \/ ScrapeExceptFail
    \/ ScrapeReturned
    \/ BatchScan \/ BatchNext \/ BatchDone
    \/ AnalyzeBeginOk \/ AnalyzeBeginFail \/ AnalyzeGetContent \/ AnalyzeNoContent
    \/ AnalyzeCommitFail \/ AnalyzeDirect \/ AnalyzeTwoStage \/ AnalyzeFailed
    \/ AnalyzeSave \/ AnalyzeExceptOk \/ AnalyzeExceptFail
    \/ AnalyzeRequestDone \/ BatchReturned

Spec == Init /\ [][Next]_vars

ChunkNext == ChunkWhole \/ ChunkEnter \/ ChunkStep \/ ChunkReturn

ChunkSpec == ChunkInit /\ [][ChunkNext]_vars

\* The call runs on a thread that is not stopped: a statement that can be
\* executed is executed.
ChunkFairSpec == ChunkAnySizeInit /\ [][ChunkNext]_vars /\ WF_vars(ChunkNext)

(***************************************************************************)
(* scraper.py get_meeting_minutes_urls as a function of the page served.   *)
(***************************************************************************)
ListingInit ==
    /\ listing_page \in PagesOf(AllHrefs)
    /\ listing = <<>>
    /\ spc = "listing_call"
    /\ http_response = NoHttpResponse
    /\ extraction = "none"
    /\ downloaded = Unassigned
    /\ callers = [p \in Procs |-> IdleCaller]
    /\ PipeIdle
    /\ ChunkIdle

\* lines 36-115: the call returns a list, whatever happened.
GetListing ==
    /\ spc = "listing_call"
    /\ listing' = GetMeetingMinutesUrls(listing_page)
    /\ spc' = "listing_done"
    /\ UNCHANGED <<chunkVars, pipeVars, listing_page, http_response, extraction, downloaded, callers>>

ListingNext == GetListing

ListingSpec == ListingInit /\ [][ListingNext]_vars

(***************************************************************************)
(* scraper.py download_document_content as a function of the response.     *)
(***************************************************************************)
\* Values of the Content-Type header; "" is a response without the header.
ContentTypes == {"", "text/html", "text/html; charset=utf-8", "application/pdf",
                 "Application/PDF", "application/octet-stream"}

DocumentUrls == {"m.pdf", "m.PDF", "m.html", "m"}

\* What the body really is.
Bodies == {"pdf", "pdf_no_text", "html", "html_no_text"}

HttpResponses ==
    {NoHttpResponse}
    \cup [ok : {TRUE}, content_type : ContentTypes, url : DocumentUrls, body : Bodies]

\* line 132: .lower() of the header value.
LowerType(content_type) ==
    IF content_type = "Application/PDF" THEN "application/pdf" ELSE content_type

\* line 134: 'application/pdf' in content_type
DeclaresPdf(content_type) == LowerType(content_type) = "application/pdf"

DeclaresHtml(content_type) ==
    LowerType(content_type) \in {"text/html", "text/html; charset=utf-8"}

\* line 134: url.lower().endswith('.pdf')
PdfSuffix(url) == url \in {"m.pdf", "m.PDF"}

\* Mutant of ExtractionPath: the declared type alone decides.
ExtractionPathByType(content_type, url) ==
    IF DeclaresPdf(content_type) THEN "pdf" ELSE "html"

\* line 134: the extractor chosen for a response.
ExtractionPath(content_type, url) ==
    IF DeclaresPdf(content_type) \/ PdfSuffix(url) THEN "pdf" ELSE "html"

\* lines 148-185: text of a PDF with text; None for a PDF without text and
\* for bytes PdfReader cannot read.
ExtractPdfText(body) == IF body = "pdf" THEN 4000 ELSE NoContent

\* lines 187-221: the text of the parsed bytes, "" when there is none; the
\* lenient parser also returns text for bytes that are not HTML.
ExtractHtmlText(body) == IF body = "html_no_text" THEN 0 ELSE 4000

DownloadInit ==
    /\ http_response \in HttpResponses
    /\ extraction = "none"
    /\ downloaded = Unassigned
    /\ spc = "download_call"
    /\ listing_page = NoPage
    /\ listing = <<>>
    /\ callers = [p \in Procs |-> IdleCaller]
    /\ PipeIdle
    /\ ChunkIdle

\* lines 141-143: the request failed, None is returned.
DownloadFailed ==
    /\ spc = "download_call"
    /\ ~http_response.ok
    /\ downloaded' = NoContent
    /\ spc' = "download_done"
    /\ UNCHANGED <<chunkVars, pipeVars, listing_page, listing, http_response, extraction, callers>>

\* lines 132-139: the extractor is chosen and run on the body.
DownloadExtract ==
    /\ spc = "download_call"
    /\ http_response.ok
    /\ extraction' = ExtractionPath(http_response.content_type, http_response.url)
    /\ downloaded' = IF extraction' = "pdf" THEN ExtractPdfText(http_response.body)
                                             ELSE ExtractHtmlText(http_response.body)
    /\ spc' = "download_done"
    /\ UNCHANGED <<chunkVars, pipeVars, listing_page, listing, http_response, callers>>

DownloadNext == DownloadFailed \/ DownloadExtract

DownloadSpec == DownloadInit /\ [][DownloadNext]_vars

(***************************************************************************)
(* Overlapping callers.  The endpoints are plain "def" functions, which    *)
(* the server runs in worker threads, each with the Session of get_db or   *)
(* SessionLocal(); scheduler.py is a process of its own.  A caller's steps *)
(* are its reads and commits of the shared table; what analyze_document    *)
(* does between two commits touches no shared row.                         *)
(***************************************************************************)
\* Two documents that discovery and scraping have left in SCRAPED.
ScrapedDocuments ==
    <<[NewDocument("u1") EXCEPT !.status = SCRAPED],
      [NewDocument("u2") EXCEPT !.status = SCRAPED]>>

ConcInit ==
    /\ documents = ScrapedDocuments
    /\ analyses = <<>>
    /\ cache = [k \in DocIds |-> NoObject]
    /\ callers = [p \in Procs |-> IdleCaller]
    /\ PipeLocalsIdle
    /\ ScraperIdle
    /\ ChunkIdle

ConcFrame == UNCHANGED <<chunkVars, scraperVars, cache, ctlVars, discVars, anVars,
                         reqVars, histVars>>

\* Analysis rows the running callers may still add.
Outstanding(p) ==
    Len(callers[p].queue) + (IF callers[p].pc \in {"begin", "model", "save"} THEN 1 ELSE 0)

RECURSIVE OutstandingOf(_)
OutstandingOf(ps) ==
    IF ps = {} THEN 0
    ELSE LET p == CHOOSE q \in ps : TRUE
         IN  Outstanding(p) + OutstandingOf(ps \ {p})

\* The caller's position once its analyze_document call is over.
AfterAnalyze(c, outcome) ==
    IF c.op = "analyze_all" /\ outcome # "raised"
    THEN [c EXCEPT !.pc = "next", !.doc = 0]
    ELSE IdleCaller

SetStatus(d, s) == [documents EXCEPT ![d].status = s]

\* routers/documents.py lines 120-135: the row is read, the guard passes.
ConcRequest(p) ==
    /\ callers[p].pc = "idle"
    /\ OutstandingOf(Procs) + Len(analyses) < MaxAnalyses
    /\ \E d \in 1..Len(documents) :
          /\ Eligible(documents[d].status)
          /\ callers' = [callers EXCEPT ![p] =
                 [op |-> "analyze_request", pc |-> "begin", doc |-> d, queue |-> <<>>]]
    /\ UNCHANGED <<documents, analyses>>
    /\ ConcFrame

\* routers/documents.py lines 125-129: the row read is in no eligible state.
ConcRequestRejected(p) ==
    /\ callers[p].pc = "idle"
    /\ \E d \in 1..Len(documents) :
          /\ ~Eligible(documents[d].status)
          /\ callers' = [callers EXCEPT ![p] =
                 [op |-> "analyze_request", pc |-> "rejected", doc |-> d, queue |-> <<>>]]
    /\ UNCHANGED <<documents, analyses>>
    /\ ConcFrame

\* The 400 response has been sent.
ConcRejectedDone(p) ==
    /\ callers[p].pc = "rejected"
    /\ callers' = [callers EXCEPT ![p] = IdleCaller]
    /\ UNCHANGED <<documents, analyses>>
    /\ ConcFrame

\* analyzer.py lines 279-281: analyze_pending_documents reads the SCRAPED rows.
ConcAnalyzeAll(p) ==
    /\ callers[p].pc = "idle"
    /\ OutstandingOf(Procs) + Len(analyses) + Len(PendingDocs) <= MaxAnalyses
    /\ callers' = [callers EXCEPT ![p] =
           [op |-> "analyze_all", pc |-> "next", doc |-> 0, queue |-> PendingDocs]]
    /\ UNCHANGED <<documents, analyses>>
    /\ ConcFrame

\* analyzer.py lines 285-286: the next row of the list read by the scan.
ConcBatchNext(p) ==
    /\ callers[p].pc = "next"
    /\ callers[p].queue # <<>>
    /\ callers' = [callers EXCEPT ![p].pc = "begin",
                                  ![p].doc = Head(callers[p].queue),
                                  ![p].queue = Tail(callers[p].queue)]
    /\ UNCHANGED <<documents, analyses>>
    /\ ConcFrame

\* analyzer.py lines 291-292
ConcBatchDone(p) ==
    /\ callers[p].pc = "next"
    /\ callers[p].queue = <<>>
    /\ callers' = [callers EXCEPT ![p] = IdleCaller]
    /\ UNCHANGED <<documents, analyses>>
    /\ ConcFrame

\* analyzer.py lines 46-47: ANALYZING is committed.
ConcBeginOk(p) ==
    /\ callers[p].pc = "begin"
    /\ documents' = SetStatus(callers[p].doc, ANALYZING)
    /\ callers' = [callers EXCEPT ![p].pc = "model"]
    /\ UNCHANGED analyses
    /\ ConcFrame

\* analyzer.py lines 47, 54, 68, 79: the commit raises, the session rolls back.
ConcCommitFail(p) ==
    /\ callers[p].pc \in {"begin", "save", "error"}
    /\ callers' = [callers EXCEPT ![p].pc = "except"]
    /\ UNCHANGED <<documents, analyses>>
    /\ ConcFrame

\* analyzer.py lines 50-64: content and model calls end with or without a
\* result.
ConcModel(p) ==
    /\ callers[p].pc = "model"
    /\ \E next \in {"save", "error"} :
          callers' = [callers EXCEPT ![p].pc = next]
    /\ UNCHANGED <<documents, analyses>>
    /\ ConcFrame

\* analyzer.py lines 71-82: the Analysis row and ANALYZED are committed.
ConcSaveOk(p) ==
    /\ callers[p].pc = "save"
    /\ documents' = SetStatus(callers[p].doc, ANALYZED)
    /\ analyses' = AddAnalysis(analyses, NewAnalysis(callers[p].doc, "r1"))
    /\ callers' = [callers EXCEPT ![p] = AfterAnalyze(callers[p], "True")]
    /\ ConcFrame

\* analyzer.py lines 53-55, 67-69: ERROR is committed, False is returned.
ConcErrorOk(p) ==
    /\ callers[p].pc = "error"
    /\ documents' = SetStatus(callers[p].doc, ERROR)
    /\ callers' = [callers EXCEPT ![p] = AfterAnalyze(callers[p], "False")]
    /\ UNCHANGED analyses
    /\ ConcFrame

\* analyzer.py lines 84-88: the handler commits ERROR and returns False.
ConcExceptOk(p) ==
    /\ callers[p].pc = "except"
    /\ documents' = SetStatus(callers[p].doc, ERROR)
    /\ callers' = [callers EXCEPT ![p] = AfterAnalyze(callers[p], "False")]
    /\ UNCHANGED analyses
    /\ ConcFrame

\* analyzer.py line 87: the handler's commit raises, too.
ConcExceptFail(p) ==
    /\ callers[p].pc = "except"
    /\ callers' = [callers EXCEPT ![p] = AfterAnalyze(callers[p], "raised")]
    /\ UNCHANGED <<documents, analyses>>
    /\ ConcFrame

ConcNext ==
    \E p \in Procs :
        \/ ConcRequest(p) \/ ConcRequestRejected(p) \/ ConcRejectedDone(p)
        \/ ConcAnalyzeAll(p) \/ ConcBatchNext(p) \/ ConcBatchDone(p)
        \/ ConcBeginOk(p) \/ ConcCommitFail(p) \/ ConcModel(p)
        \/ ConcSaveOk(p) \/ ConcErrorOk(p) \/ ConcExceptOk(p) \/ ConcExceptFail(p)

ConcSpec == ConcInit /\ [][ConcNext]_vars

(***************************************************************************)
(* Properties of _chunk_content (checked under ChunkSpec).                 *)
(***************************************************************************)

\* C1: for every text and every max_chars >= 1, the pieces returned by
\* _chunk_content, concatenated in order, are exactly the text; while the
\* loop runs the pieces produced so far are exactly the text up to
\* current_pos.
C1_PiecesConcatenateToText ==
    /\ cpc = "loop" => Concat(chunks) = Slice(content, 0, current_pos)
    /\ cpc = "done" => Concat(chunks) = content

\* C1 witness: a text split into three pieces has been returned.
C1_Witness ==
    /\ cpc = "done"
    /\ Len(chunks) = 3
    /\ Concat(chunks) = content

\* C2: a text no longer than max_chars, the empty text included, is
\* returned as exactly one piece, equal to the text.
C2_ShortTextIsOnePiece ==
    (cpc = "done" /\ Len(content) <= max_chars) => chunks = <<content>>

\* C2 witness: the empty text has been returned as the single piece "".
C2_Witness ==
    /\ cpc = "done"
    /\ content = <<>>
    /\ chunks = << <<>> >>

\* C3: every piece is at most max_chars long, whichever breakpoint
\* (paragraph, sentence or raw) ended it.
C3_PieceWithinMaxChars ==
    \A i \in 1..Len(chunks) : Len(chunks[i]) <= max_chars

\* C3 witness: a returned piece was cut after a sentence break that ends
\* exactly at the window's end, so the piece is max_chars long.
C3_Witness ==
    /\ cpc = "done"
    /\ Len(chunks) >= 2
    /\ Len(chunks[1]) = max_chars
    /\ max_chars >= 3
    /\ SubSeq(chunks[1], max_chars - 1, max_chars) = SentenceBreak
    /\ Len(content) > max_chars

(***************************************************************************)
(* Properties of analyze_document (checked under Spec).                    *)
(***************************************************************************)
AnalyzePcs == {"an_begin", "an_content", "an_nocontent", "an_model", "an_failed",
               "an_save", "an_except", "an_return"}

InAnalyze == pc \in AnalyzePcs

\* _get_document_content was called and gave None or "".
ContentUnavailable == InAnalyze /\ doc_content \in {NoContent, 0}

\* C4: when analyze_document cannot obtain content (the cache read is
\* absent or misses and the download gives nothing or empty text), no model
\* call is made, and when it returns it returns False with the document's
\* committed state ERROR.
C4_NoContentIsError ==
    ContentUnavailable =>
        /\ llm_calls = <<>>
        /\ (pc = "an_return" /\ result # "raised") =>
              /\ result = "False"
              /\ documents[cur].status = ERROR

\* C4 witness: a document with a cache-location whose cache read missed and
\* whose download gave empty text has been answered False.
C4_Witness ==
    /\ pc = "an_return"
    /\ doc_content = 0
    /\ documents[cur].file_path # NoPath
    /\ result = "False"
    /\ documents[cur].status = ERROR

\* C5 as stated: no operation leaves a document in ANALYZING as its final
\* observable state; whenever analyze_document finishes, by returning or by
\* raising, the document's committed state is not ANALYZING.
C5_NeverLeftAnalyzing ==
    pc = "an_return" => documents[cur].status # ANALYZING

\* The decisive model call of the running analysis: the direct call, or the
\* final call of the two-stage strategy.
DecisiveCalls == SelectSeq(llm_calls, LAMBDA c : c.kind \in {"direct", "final"})

DecisiveFailed ==
    /\ InAnalyze
    /\ DecisiveCalls # <<>>
    /\ DecisiveCalls[1].out \in {"", LLMRaised}

\* C6: when the decisive model call returns the empty string or raises, no
\* AnalysisRecord is created, and when analyze_document returns it returns
\* False with the document's committed state ERROR.
C6_EmptyOrFailedModelIsError ==
    DecisiveFailed =>
        /\ analyses = h_analyses
        /\ (pc = "an_return" /\ result # "raised") =>
              /\ result = "False"
              /\ documents[cur].status = ERROR

\* C6 witness: the final call of a two-stage analysis returned "" and the
\* call has returned False.
C6_Witness ==
    /\ pc = "an_return"
    /\ result = "False"
    /\ DecisiveCalls # <<>>
    /\ DecisiveCalls[1].kind = "final"
    /\ DecisiveCalls[1].out = ""

IsPrefix(p, q) == Len(p) <= Len(q) /\ SubSeq(q, 1, Len(p)) = p

\* C7: an analysis entered on an ANALYZED document runs (the document goes
\* to ANALYZING and on to ANALYZED or ERROR, never to PENDING or SCRAPED);
\* every earlier AnalysisRecord stays in place unchanged; a run that
\* returns True has added exactly one record, any other run none.
C7_ReanalysisAccumulates ==
    (InAnalyze /\ h_status = ANALYZED) =>
        /\ documents[cur].status \in {ANALYZED, ANALYZING, ERROR}
        /\ pc \notin {"an_begin", "an_except", "an_return"}
              => documents[cur].status = ANALYZING
        /\ IsPrefix(h_analyses, analyses)
        /\ pc # "an_return" => analyses = h_analyses
        /\ (pc = "an_return" /\ result = "True") =>
              /\ Len(analyses) = Len(h_analyses) + 1
              /\ analyses[Len(analyses)].document_id = cur
        /\ (pc = "an_return" /\ result # "True") => analyses = h_analyses

\* C7 witness: a re-run on an ANALYZED document has returned True and the
\* document now has its earlier record and the new one.
C7_Witness ==
    /\ pc = "an_return"
    /\ h_status = ANALYZED
    /\ result = "True"
    /\ Len(h_analyses) = 1
    /\ h_analyses[1].document_id = cur
    /\ Len(AnalysesOf(cur)) = 2

HistoryAnalysesOf(d) == SelectSeq(h_analyses, LAMBDA a : a.document_id = d)

\* C8: a call of analyze_document that returns True has added exactly one
\* AnalysisRecord to the document, of kind CUSTOM_PROMPT, referencing the
\* document and holding the model's answer; a call that returns False has
\* added none.
C8_OneRecordPerSuccess ==
    pc = "an_return" =>
        /\ result = "True" =>
              /\ Len(AnalysesOf(cur)) = Len(HistoryAnalysesOf(cur)) + 1
              /\ Len(analyses) = Len(h_analyses) + 1
              /\ analyses[Len(analyses)] =
                    [document_id |-> cur, analysis_type |-> CUSTOM_PROMPT,
                     content |-> analysis_content]
              /\ analysis_content \notin {"", NoResponse}
        /\ result = "False" =>
              /\ Len(AnalysesOf(cur)) = Len(HistoryAnalysesOf(cur))
              /\ analyses = h_analyses

\* C8 witness: the batch analysis has analyzed a SCRAPED document
\* successfully and its first record exists.
C8_Witness ==
    /\ pc = "an_return"
    /\ op = "analyze_all"
    /\ h_status = SCRAPED
    /\ result = "True"
    /\ Len(AnalysesOf(cur)) = 1

(***************************************************************************)
(* Properties of check_for_new_documents (checked under Spec).             *)
(***************************************************************************)

\* C9: a discovery that is given the listing of the discovery that returned
\* before it adds no Document to the session, commits nothing, returns the
\* empty sequence and leaves the documents table as it found it.
C9_SecondDiscoveryFindsNothing ==
    (repeat /\ pc \in {"disc_commit", "disc_return"}) =>
        /\ new_documents = <<>>
        /\ documents = h_documents
        /\ pc = "disc_return" => result = "returned"

\* C9 witness: the second discovery on a non-empty listing has returned.
C9_Witness ==
    /\ repeat
    /\ pc = "disc_return"
    /\ available_docs # <<>>
    /\ result = "returned"
    /\ new_documents = <<>>

\* C10 as stated: for every listing, discovery never creates, nor attempts
\* to persist, two DocumentRecords with the same URL.
C10_NoDuplicateUrlAttempted ==
    /\ \A i, j \in 1..Len(documents) : i # j => documents[i].url # documents[j].url
    /\ pc = "disc_commit" => UniqueUrls(new_documents, ExistingUrls)

UrlsOf(rows) == {rows[i].url : i \in 1..Len(rows)}

\* The commit of a batch the unique constraint accepts was refused all the
\* same: the database itself was unavailable.
DatabaseRefused ==
    result = "raised" /\ UniqueUrls(new_documents, UrlsOf(h_documents))

\* C11 as stated: when discovery is over, every listed candidate (one per
\* row with at least three columns and a minutes link) whose URL was not
\* known before has its record, in state PENDING, among the records the
\* discovery added, unless the database was unavailable.
C11_OneRecordPerNewRow ==
    (pc = "disc_return" /\ ~DatabaseRefused) =>
        \A i \in 1..Len(available_docs) :
            available_docs[i] \notin UrlsOf(h_documents) =>
                \E d \in (Len(h_documents) + 1)..Len(documents) :
                    /\ documents[d].url = available_docs[i]
                    /\ documents[d].status = PENDING

(***************************************************************************)
(* Properties of _get_document_content and of the analysis entry points    *)
(* (checked under Spec).                                                   *)
(***************************************************************************)

\* C12: when the document has a cache-location and the cache read gives
\* non-empty text, that text is the content analyze_document works on,
\* download_document_content is not called and nothing is uploaded: the
\* bucket keeps its objects and no file_path is assigned.
C12_CacheHitSkipsFetch ==
    (InAnalyze /\ cache_read > 0) =>
        /\ documents[cur].file_path # NoPath
        /\ doc_content = cache_read
        /\ fetch_calls = 0
        /\ upload = "none"
        /\ pending_path = NoPath

\* C12 witness: an analysis that read its text from the cache has
\* succeeded without a download.
C12_Witness ==
    /\ pc = "an_return"
    /\ result = "True"
    /\ cache_read > 0
    /\ doc_content = cache_read
    /\ fetch_calls = 0

\* C13: a request to analyze a document that is PENDING, ANALYZING or ERROR
\* is answered with the precondition error and leaves the document as it
\* was, with no content resolved and no model call made; analyze_document
\* only ever runs on a document that was SCRAPED or ANALYZED when it was
\* entered.
C13_IneligibleStateRejected ==
    /\ response = "400" =>
          /\ h_status \in {PENDING, ANALYZING, ERROR}
          /\ documents[document_id].status = h_status
          /\ cur = 0
          /\ doc_content = Unassigned
          /\ cache_read = Unassigned
          /\ fetch_calls = 0
          /\ llm_calls = <<>>
    /\ InAnalyze => h_status \in {SCRAPED, ANALYZED}

\* C13 witness: a request on a document in ERROR has been rejected.
C13_Witness ==
    /\ response = "400"
    /\ h_status = ERROR
    /\ documents[document_id].status = ERROR

(***************************************************************************)
(* Properties of analyze_pending_documents and of the entry points         *)
(* (checked under Spec).                                                   *)
(***************************************************************************)
InBatch == op \in {"analyze_all", "scheduled_run"}

\* analyze_pending_documents is over: it returned its count, or an
\* exception of analyze_document left it.
BatchOver ==
    /\ InBatch
    /\ \/ pc = "batch_next" /\ queue = <<>>
       \/ pc = "an_return" /\ result = "raised"

AnalyzedOf(ds) == SelectSeq(ds, LAMBDA d : documents[d].status = ANALYZED)

\* C14 as stated: when analyze_pending_documents is over, every document
\* that was SCRAPED at the scan has been attempted, whatever happened to
\* the documents before it, and the count returned is the number of
\* scanned documents that are now ANALYZED.
C14_EveryScannedDocumentAttempted ==
    BatchOver =>
        /\ queue = <<>>
        /\ pc = "batch_next" => analyzed_count = Len(AnalyzedOf(pending_docs))

\* C15 as stated: analyze_document, analyze_pending_documents and
\* check_for_new_documents never end by raising.
C15_EntryPointsNeverRaise ==
    pc \in {"disc_return", "an_return"} => result # "raised"

(***************************************************************************)
(* Properties of scrape_document (checked under Spec).                     *)
(***************************************************************************)

\* C16 as stated: while scrape_document has not downloaded the content of
\* the document, the document's committed state is not SCRAPED.
C16_ScrapedOnlyAfterDownload ==
    pc = "sc_download" => documents[cur].status # SCRAPED

(***************************************************************************)
(* Properties of content resolution and of the two-stage strategy          *)
(* (checked under Spec).                                                   *)
(***************************************************************************)

\* C17: when the download gives text for a document without a
\* cache-location and the upload fails, the text is still the content
\* analyze_document works on, the analysis goes on to the model, and the
\* document's file_path stays absent, also after the analysis committed.
C17_FailedUploadIsHarmless ==
    (InAnalyze /\ upload = "failed") =>
        /\ doc_content > 0
        /\ pc \notin {"an_content", "an_nocontent"}
        /\ pc # "an_model" => llm_calls # <<>>
        /\ pending_path = NoPath
        /\ documents[cur].file_path = NoPath
        /\ cache[FileKey(cur)] = NoObject

\* C17 witness: an analysis whose upload failed has succeeded and the
\* document still has no file_path.
C17_Witness ==
    /\ pc = "an_return"
    /\ result = "True"
    /\ upload = "failed"
    /\ documents[cur].status = ANALYZED
    /\ documents[cur].file_path = NoPath

\* C18: whenever analyze_document has gone on to the model, the content it
\* resolved is non-empty text; an empty (or failed) cache read is followed
\* by the download; and a call whose download gave the empty text makes no
\* model call and, when it returns, returns False with the document in ERROR.
C18_ResolvedContentNonEmpty ==
    InAnalyze =>
        /\ (pc \in {"an_model", "an_failed", "an_save"} \/ llm_calls # <<>>)
              => doc_content > 0
        /\ cache_read \in {NoContent, 0} => fetch_calls = 1
        /\ (fetch_calls = 1 /\ doc_content = 0) =>
              /\ llm_calls = <<>>
              /\ pc \in {"an_nocontent", "an_except", "an_return"}
              /\ (pc = "an_return" /\ result # "raised") =>
                    /\ result = "False"
                    /\ documents[cur].status = ERROR

\* C18 witness: the cache read gave the empty text, the download that
\* followed gave the empty text too, and the call returned False.
C18_Witness ==
    /\ pc = "an_return"
    /\ cache_read = 0
    /\ fetch_calls = 1
    /\ doc_content = 0
    /\ result = "False"
    /\ documents[cur].status = ERROR

\* The running analysis took the two-stage strategy.
TwoStage == InAnalyze /\ llm_calls # <<>> /\ llm_calls[1].kind = "summary"

SummaryCallsMade == SelectSeq(llm_calls, LAMBDA c : c.kind = "summary")

FinalCallsMade == SelectSeq(llm_calls, LAMBDA c : c.kind = "final")

RECURSIVE OutputsOf(_)
OutputsOf(calls) ==
    IF calls = <<>> THEN <<>>
    ELSE (IF Head(calls).out = LLMRaised THEN <<>> ELSE <<Head(calls).out>>)
         \o OutputsOf(Tail(calls))

\* The parts, with a blank line between each two.
BlankLineJoined(parts) ==
    [k \in 1..(IF parts = <<>> THEN 0 ELSE 2 * Len(parts) - 1) |->
        IF k % 2 = 1 THEN parts[(k + 1) \div 2] ELSE "\n\n"]

\* C19 as stated: in a successful analysis by the two-stage strategy no
\* model call has received the full text of the document.
C19_NoCallGetsFullText ==
    (TwoStage /\ pc = "an_return" /\ result = "True") =>
        \A i \in 1..Len(llm_calls) : ~llm_calls[i].full_text

\* C19 amended: the two-stage strategy is taken exactly when the estimate
\* exceeds the budget; its final call, made last and at most once, receives
\* the summaries of the chunks in order and not the text; a successful
\* analysis has added exactly one AnalysisRecord, holding the output of
\* that final call; and no call receives the full text when the text is
\* longer than the summarization chunk size, while a shorter text is
\* summarized as a single chunk, which is the full text.
C19_TwoStageUsesCombinedSummary ==
    /\ (InAnalyze /\ llm_calls # <<>>) =>
          (TwoStage <=> (doc_content \div 4) + (prompt \div 4) + 500 > 8000)
    /\ TwoStage =>
          /\ Len(FinalCallsMade) <= 1
          /\ llm_calls = SummaryCallsMade \o FinalCallsMade
          /\ \A i \in 1..Len(FinalCallsMade) :
                /\ ~FinalCallsMade[i].full_text
                /\ FinalCallsMade[i].summaries = BlankLineJoined(OutputsOf(SummaryCallsMade))
                /\ FinalCallsMade[i].summaries # <<>>
          /\ doc_content > SummaryChunkSize =>
                /\ Len(SummaryCallsMade) >= 2
                /\ \A i \in 1..Len(llm_calls) : ~llm_calls[i].full_text
          /\ doc_content <= SummaryChunkSize =>
                /\ Len(SummaryCallsMade) = 1
                /\ SummaryCallsMade[1].full_text
          /\ (pc = "an_return" /\ result = "True") =>
                /\ Len(FinalCallsMade) = 1
                /\ Len(analyses) = Len(h_analyses) + 1
                /\ analyses[Len(analyses)].document_id = cur
                /\ analyses[Len(analyses)].content = FinalCallsMade[1].out

\* C19 witness: a two-stage analysis of a text of two chunks has succeeded.
C19_Witness ==
    /\ pc = "an_return"
    /\ result = "True"
    /\ TwoStage
    /\ Len(SummaryCallsMade) = 2
    /\ Len(FinalCallsMade) = 1
    /\ analyses[Len(analyses)].content = FinalCallsMade[1].out

(***************************************************************************)
(* The number of pieces of _chunk_content (checked under ChunkSpec).       *)
(***************************************************************************)
\* _chunk_content has returned for a text with 2*max_chars < L <= 3*max_chars.
ThreeWindows ==
    /\ cpc = "done"
    /\ 2 * max_chars < Len(content)
    /\ Len(content) <= 3 * max_chars

Occurs(sub, s) ==
    \E i \in 1..(Len(s) - Len(sub) + 1) : SubSeq(s, i, i + Len(sub) - 1) = sub

\* C20 as stated: such a text is returned in exactly 3 pieces, wherever
\* its paragraph and sentence breaks are.
C20_ExactlyThreePieces ==
    ThreeWindows => Len(chunks) = 3

\* C20 amended: such a text is returned in at least 3 pieces, and in
\* exactly 3 pieces when it has no paragraph break and no sentence break.
C20_AtLeastThreePieces ==
    ThreeWindows =>
        /\ Len(chunks) >= 3
        /\ (~Occurs(ParagraphBreak, content) /\ ~Occurs(SentenceBreak, content))
              => Len(chunks) = 3

\* C20 witness: a text of 7 characters without breaks has been returned
\* in 3 pieces for max_chars = 3.
C20_Witness ==
    /\ ThreeWindows
    /\ max_chars = 3
    /\ Len(content) = 7
    /\ ~Occurs(ParagraphBreak, content)
    /\ ~Occurs(SentenceBreak, content)
    /\ Len(chunks) = 3

(***************************************************************************)
(* Where _chunk_content cuts (checked under ChunkSpec).                    *)
(***************************************************************************)
\* Position (from 0) at which piece i starts.
PieceStart(i) == Len(Concat(SubSeq(chunks, 1, i - 1)))

\* sub occurs in s at position j (from 0).
OccursAt(sub, s, j) ==
    /\ j >= 0
    /\ j + Len(sub) <= Len(s)
    /\ SubSeq(s, j + 1, j + Len(sub)) = sub

EndsWith(s, sub) == OccursAt(sub, s, Len(s) - Len(sub))

\* The window of piece i holds a double newline that begins after the
\* piece's start.
ParagraphAfterStart(i) ==
    \E j \in (PieceStart(i) + 1)..(PieceStart(i) + max_chars - 2) :
        OccursAt(ParagraphBreak, content, j)

\* The window of piece i holds a period followed by a space.
SentenceInWindow(i) ==
    \E j \in PieceStart(i)..(PieceStart(i) + max_chars - 2) :
        OccursAt(SentenceBreak, content, j)

C28_TerminatorStaysInPiece ==
    cpc = "done" =>
        \A i \in 1..(Len(chunks) - 1) :
            Len(chunks[i]) < max_chars =>
                \/ EndsWith(chunks[i], ParagraphBreak)
                \/ EndsWith(chunks[i], SentenceBreak)

(***************************************************************************)
(* Properties of the scraper's retrieval functions.                        *)
(***************************************************************************)
\* A listing that was retrieved and holds no document.
EmptyListingPage == [fetch_ok |-> TRUE, has_table |-> TRUE, rows |-> <<>>]

\* C23 as stated: when the listing request fails or the page has no table,
\* what get_meeting_minutes_urls hands its caller differs from what it
\* hands it for a retrieved listing without documents.
C23_FailedListingDistinguishable ==
    (spc = "listing_done" /\ (~listing_page.fetch_ok \/ ~listing_page.has_table)) =>
        listing # GetMeetingMinutesUrls(EmptyListingPage)

Attempting(p) == callers[p].pc \in {"model", "save", "error"}

\* C22 as stated: under any interleaving of analyze requests and
\* analyze-all runs, at most one analyze_document execution per document is
\* between its commit of ANALYZING and its commit of ANALYZED or ERROR.
C22_OneAttemptPerDocument ==
    \A p, q \in Procs :
        (p # q /\ Attempting(p) /\ Attempting(q)) => callers[p].doc # callers[q].doc

(***************************************************************************)
(* The two strategies of _analyze_content_with_chunking.                   *)
(***************************************************************************)
\* C25: in the two-stage strategy the summarization calls are one per
\* chunk, chunk 1 to chunk n in order, also after a call that failed; when
\* at least one of them succeeded, the final call is made on the successful
\* summaries in chunk order joined by blank lines; when none succeeded, no
\* final call is made, there is no analysis result, and the attempt that
\* has returned did not succeed and added no AnalysisRecord.
C25_FailedChunksAreSkipped ==
    TwoStage =>
        /\ \A i \in 1..Len(SummaryCallsMade) :
              SummaryCallsMade[i].chunk = <<i, Len(SummaryCallsMade)>>
        /\ Len(SummaryCallsMade) * SummaryChunkSize >= doc_content
        /\ IF OutputsOf(SummaryCallsMade) = <<>>
           THEN /\ FinalCallsMade = <<>>
                /\ analysis_content = NoResponse
                /\ pc = "an_return" => (result # "True" /\ analyses = h_analyses)
           ELSE /\ Len(FinalCallsMade) = 1
                /\ FinalCallsMade[1].summaries =
                       BlankLineJoined(OutputsOf(SummaryCallsMade))

\* C25 witness: of two chunks the first one's call raised, the second was
\* still summarized and its summary alone went to the final call.
C25_Witness ==
    /\ TwoStage
    /\ Len(SummaryCallsMade) = 2
    /\ SummaryCallsMade[1].out = LLMRaised
    /\ SummaryCallsMade[2].out = "s2"
    /\ Len(FinalCallsMade) = 1
    /\ FinalCallsMade[1].summaries = <<"s2">>

\* The estimate of the running analysis, as the claim computes it.
Estimate == (doc_content \div 4) + (prompt \div 4) + 500

\* The one call of the direct strategy: prompt and full text, and its
\* output (None when it raised) is the analysis result.
OneDirectCall ==
    /\ Len(llm_calls) = 1
    /\ llm_calls[1].kind = "direct"
    /\ llm_calls[1].full_text
    /\ analysis_content =
          (IF llm_calls[1].out = LLMRaised THEN NoResponse ELSE llm_calls[1].out)

\* C26 as stated: when the estimate is at most 8000 exactly one call is
\* issued, with the prompt and the full text, and its output is the
\* result; when it is above 8000 no call carries the full text.
C26_OverBudgetNeverFullText ==
    (InAnalyze /\ llm_calls # <<>>) =>
        IF Estimate <= 8000 THEN OneDirectCall
        ELSE \A i \in 1..Len(llm_calls) : ~llm_calls[i].full_text

\* C26 amended: when the estimate is at most 8000 exactly one call is
\* issued, with the prompt and the full text, and its output is the
\* result; when it is above 8000 no call carries the prompt together with
\* the full text: the text goes to summarization calls only, in pieces when
\* it is longer than 20,000 characters and whole, in a single
\* summarization call, when it is not.
C26_StrategyByEstimate ==
    (InAnalyze /\ llm_calls # <<>>) =>
        IF Estimate <= 8000 THEN OneDirectCall
        ELSE /\ llm_calls[1].kind = "summary"
             /\ \A i \in 1..Len(llm_calls) :
                   /\ llm_calls[i].kind \in {"summary", "final"}
                   /\ llm_calls[i].kind = "final" => ~llm_calls[i].full_text
                   /\ llm_calls[i].full_text <=>
                         (llm_calls[i].kind = "summary" /\ doc_content <= 20000)

\* C26 witness: a text of 4,000 characters with a prompt of 32,000 is over
\* the budget; it has been summarized whole and the analysis has succeeded.
C26_Witness ==
    /\ pc = "an_return"
    /\ result = "True"
    /\ doc_content = 4000
    /\ prompt = 32000
    /\ Len(llm_calls) = 2
    /\ llm_calls[1].kind = "summary"
    /\ llm_calls[1].full_text
    /\ llm_calls[2].kind = "final"

(***************************************************************************)
(* The lifecycle state machine.                                            *)
(***************************************************************************)
\* The edges the state machine allows between persisted states.
LifecycleEdges ==
    {<<PENDING, SCRAPED>>, <<SCRAPED, ANALYZING>>, <<ANALYZED, ANALYZING>>,
     <<ANALYZING, ANALYZED>>, <<SCRAPED, ERROR>>, <<ANALYZING, ERROR>>}

\* C27 as stated: every step that changes the documents table creates rows
\* in PENDING, removes none, and changes the persisted state of a row only
\* along an edge of the state machine.
C27_ChangesFollowEdges ==
    [][/\ Len(documents') >= Len(documents)
       /\ \A d \in 1..Len(documents') :
             IF d > Len(documents)
             THEN documents'[d].status = PENDING
             ELSE documents'[d].status # documents[d].status =>
                     <<documents[d].status, documents'[d].status>> \in LifecycleEdges]_vars

(***************************************************************************)
(* Writes to the cache and the cache-location.                             *)
(***************************************************************************)
\* The step uploads to the cache, or tries to.
CacheWriteStep == cache' # cache \/ (upload = "none" /\ upload' # "none")

\* C29: every step that writes to the cache is taken by the resolution of a
\* document that has no persisted cache-location, follows the one successful
\* extraction of that resolution, writes the extracted, non-empty text, and
\* touches the document's own key only; so the resolution of a document
\* with a cache-location writes nothing, also when its cache read misses.
C29_NoWriteOnceLocationRecorded ==
    [][CacheWriteStep =>
          /\ pc = "an_content"
          /\ documents[cur].file_path = NoPath
          /\ fetch_calls' = 1
          /\ doc_content' > 0
          /\ \A k \in DocIds :
                cache'[k] = IF k = cur /\ upload' = "ok" THEN doc_content' ELSE cache[k]]_vars

\* C29 witness: the document has a cache-location, the cache read missed,
\* the text was fetched again and nothing was written.
C29_Witness ==
    /\ pc = "an_model"
    /\ documents[cur].file_path # NoPath
    /\ ContentMissing(cache_read)
    /\ fetch_calls = 1
    /\ doc_content > 0
    /\ upload = "none"

\* C30 as stated: a cache-location, assigned in the session or persisted,
\* is the document's own key and names an object written with non-empty
\* text; once analyze_document has returned True or False, the location
\* assigned during the call is persisted with the document; and a
\* persisted cache-location never changes.
C30_AssignedLocationPersisted ==
    /\ [](/\ pending_path # NoPath =>
               /\ pending_path = FileKey(cur)
               /\ upload = "ok"
               /\ doc_content > 0
               /\ cache[pending_path] = doc_content
          /\ \A d \in 1..Len(documents) :
               documents[d].file_path # NoPath =>
                   /\ documents[d].file_path = FileKey(d)
                   /\ cache[FileKey(d)] > 0
          /\ (pc = "an_return" /\ result \in {"True", "False"} /\ upload = "ok") =>
               documents[cur].file_path = FileKey(cur))
    /\ [][\A d \in 1..Len(documents) :
             documents[d].file_path # NoPath =>
                 documents'[d].file_path = documents[d].file_path]_vars

(***************************************************************************)
(* The URLs of the listing (checked under ListingSpec).                    *)
(***************************************************************************)
\* C31 as stated: every URL get_meeting_minutes_urls returns is absolute,
\* whatever way the link's target was written in the listing.
C31_ReturnedUrlsAbsolute ==
    spc = "listing_done" => \A i \in 1..Len(listing) : listing[i] \in URLs

(***************************************************************************)
(* Documents and their AnalysisRecords.                                    *)
(***************************************************************************)
\* C32: in every state a document in ANALYZED has an AnalysisRecord with
\* non-empty content and every AnalysisRecord references an existing
\* document; a step that makes a document ANALYZED adds one AnalysisRecord
\* for it, and a step that adds an AnalysisRecord adds one, with non-empty
\* content, and leaves its document ANALYZED.
C32_AnalyzedHasRecord ==
    /\ [](/\ \A d \in 1..Len(documents) :
               documents[d].status = ANALYZED =>
                   \E i \in 1..Len(analyses) :
                       analyses[i].document_id = d /\ analyses[i].content # ""
          /\ \A i \in 1..Len(analyses) :
               analyses[i].document_id \in 1..Len(documents))
    /\ [][/\ \A d \in 1..Len(documents) :
               (documents[d].status # ANALYZED /\ documents'[d].status = ANALYZED) =>
                   /\ Len(analyses') = Len(analyses) + 1
                   /\ analyses'[Len(analyses')].document_id = d
          /\ analyses' # analyses =>
               /\ Len(analyses') = Len(analyses) + 1
               /\ SubSeq(analyses', 1, Len(analyses)) = analyses
               /\ analyses'[Len(analyses')].content # ""
               /\ analyses'[Len(analyses')].document_id \in 1..Len(documents)
               /\ documents'[analyses'[Len(analyses')].document_id].status = ANALYZED]_vars

\* C32 witness: the analysis has just succeeded; the document is ANALYZED
\* and the record added by the call is its own.
C32_Witness ==
    /\ pc = "an_return"
    /\ result = "True"
    /\ documents[cur].status = ANALYZED
    /\ Len(analyses) = Len(h_analyses) + 1
    /\ analyses[Len(analyses)].document_id = cur
    /\ analyses[Len(analyses)].content # ""

\* C33: no step of a scheduled run, a scrape request, an analyze request
\* or an analyze-all request changes the row of a document that is in
\* ERROR or adds an AnalysisRecord for it.
C33_ErrorIsAbsorbing ==
    [][\A d \in 1..Len(documents) :
          documents[d].status = ERROR =>
              /\ documents'[d] = documents[d]
              /\ SelectSeq(analyses', LAMBDA a : a.document_id = d) = AnalysesOf(d)]_vars

\* C33 witness: an analyze request for a document in ERROR has been
\* answered 400 and the document is still in ERROR.
C33_Witness ==
    /\ pc = "responded"
    /\ response = "400"
    /\ document_id \in 1..Len(documents)
    /\ h_status = ERROR
    /\ documents[document_id].status = ERROR

(***************************************************************************)
(* The scheduled run and the documents of its discovery.                   *)
(***************************************************************************)
\* The documents created by the discovery of the operation that is running
\* or has just been answered.
CreatedByOperation == (h_old + 1)..Len(documents)

\* C34: when a scheduled run has completed without an exception leaving a
\* step, every document its discovery created is in ANALYZED or ERROR;
\* and while the run is in its batch analysis, none of them is still
\* PENDING: they were scraped before.
C34_RunLeavesNewDocumentsSettled ==
    /\ (pc = "responded" /\ response = "completed") =>
          \A d \in CreatedByOperation : documents[d].status \in {ANALYZED, ERROR}
    /\ (op = "scheduled_run" /\ (pc \in {"batch_scan", "batch_next"} \/ InAnalyze)) =>
          \A d \in CreatedByOperation : documents[d].status # PENDING

\* C34 witness: a scheduled run has completed; its discovery created two
\* documents, of which one was analyzed and the other ended in ERROR.
C34_Witness ==
    /\ pc = "responded"
    /\ response = "completed"
    /\ h_old = 0
    /\ Len(documents) = 2
    /\ documents[1].status = ANALYZED
    /\ documents[2].status = ERROR

\* C35: a document that was PENDING when the running operation began is not
\* touched by any step: its row stays as it is, PENDING, whatever runs and
\* requests follow.
C35_OldPendingStaysPending ==
    [][\A d \in 1..Len(documents) :
          (d <= h_old /\ documents[d].status = PENDING) =>
              /\ Len(documents') >= d
              /\ documents'[d] = documents[d]]_vars

\* C35 witness: document 1 was PENDING when the operation began; the
\* operation's discovery created document 2 and scraped it, and document 1
\* is PENDING still.
C35_Witness ==
    /\ pc = "responded"
    /\ h_old = 1
    /\ Len(documents) = 2
    /\ documents[1].status = PENDING
    /\ documents[2].status \in {SCRAPED, ANALYZED}

(***************************************************************************)
(* The frame of analyze_document.                                          *)
(***************************************************************************)
\* C36: no step of analyze_document(D) changes another document: the table
\* keeps its length, every other row, the cached object under every other
\* document's key and the analyses of every other document stay as they
\* are, whether the call goes on to return True, to return False or to
\* raise; and D keeps its url and its title.
C36_AnalyzeChangesOnlyItsDocument ==
    [][InAnalyze =>
          /\ Len(documents') = Len(documents)
          /\ \A d \in 1..Len(documents) :
                /\ documents'[d].url = documents[d].url
                /\ documents'[d].title = documents[d].title
                /\ d # cur =>
                      /\ documents'[d] = documents[d]
                      /\ cache'[FileKey(d)] = cache[FileKey(d)]
                      /\ SelectSeq(analyses', LAMBDA a : a.document_id = d) = AnalysesOf(d)]_vars

\* C36 witness: analyze_document(2) has stored an analysis and is about to
\* return while document 1 is SCRAPED and has no analysis.
C36_Witness ==
    /\ pc = "an_return"
    /\ cur = 2
    /\ Len(documents) = 2
    /\ documents[2].status = ANALYZED
    /\ AnalysesOf(2) # <<>>
    /\ documents[1].status = SCRAPED
    /\ AnalysesOf(1) = <<>>

(***************************************************************************)
(* Progress and termination of the loop of _chunk_content.                 *)
(***************************************************************************)
\* A step that is an iteration of the loop.
LoopIteration == cpc = "loop" /\ chunks' # chunks

\* A call with max_chars below 1 on a text that is not empty.
NoRoomCall == max_chars <= 0 /\ content # <<>>

\* With max_chars >= 1: every iteration moves the start position forward,
\* no piece of a non-empty text is empty, and the call returns.
ProgressWithRoom ==
    /\ [][(max_chars >= 1 /\ LoopIteration) => current_pos' > current_pos]_vars
    /\ []((max_chars >= 1 /\ content # <<>>) =>
            \A i \in 1..Len(chunks) : chunks[i] # <<>>)
    /\ <>(max_chars <= 0 \/ cpc = "done")

\* With max_chars <= 0 and a non-empty text the call never returns: at the
\* loop test the start position is always before the end of the text.
NeverReturnsWithoutRoom ==
    [](NoRoomCall => (cpc # "done" /\ (cpc = "loop" => current_pos < Len(content))))

\* C37 as stated: with max_chars >= 1 the call makes progress and returns;
\* with max_chars <= 0 and a non-empty text it never returns and no
\* iteration moves the start position forward.
C37_NoIterationAdvancesWithoutRoom ==
    /\ ProgressWithRoom
    /\ NeverReturnsWithoutRoom
    /\ [][(NoRoomCall /\ LoopIteration) => current_pos' <= current_pos]_vars

\* C37 amended: with max_chars >= 1 the call makes progress and returns;
\* with max_chars <= 0 and a non-empty text it never returns; the start
\* position stays where it is when max_chars = 0, and when max_chars < 0 an
\* iteration moves it back by -max_chars or forward to a break.
C37_ProgressOrNoReturn ==
    /\ ProgressWithRoom
    /\ NeverReturnsWithoutRoom
    /\ [][(NoRoomCall /\ LoopIteration) =>
            /\ max_chars = 0 => current_pos' = current_pos
            /\ max_chars < 0 =>
                  \/ current_pos' = current_pos + max_chars
                  \/ /\ current_pos' > current_pos
                     /\ \/ EndsWith(chunks'[Len(chunks')], SentenceBreak)
                        \/ OccursAt(ParagraphBreak, content, current_pos')]_vars

\* C37 witness: a call with a negative max_chars whose start position has
\* moved forward and back again.
C37_Witness ==
    /\ max_chars < 0
    /\ cpc = "loop"
    /\ Len(chunks) = 2
    /\ current_pos = 0
    /\ chunks[1] # <<>>

====
